---- MODULE Spec2Model ----
(***************************************************************************)
(* A model of convert_h1_to_h2.py: the line scanner that rewrites level-1  *)
(* Markdown headings to level 2, and the run that discovers files, backs   *)
(* them up and replaces them atomically.                                   *)
(*                                                                         *)
(* Text is a sequence of one-character strings, so that splitting,         *)
(* stripping, prefix tests and the heading pattern are computed character  *)
(* by character as the Python code computes them.                          *)
(***************************************************************************)
EXTENDS Integers, Sequences, FiniteSets, TLC

VARIABLES
    \* ---- the transform (convert_h1_to_h2) ----
    content,      \* the input text of the pass being scanned
    scan,         \* the locals of convert_h1_to_h2's loop
    trail,        \* history: the branch of the loop body each line took
    conv_pc,      \* "idle" | "scan" | "done"
    out,          \* the returned text
    out_count,    \* the returned replacement count
    pass,         \* 1: first pass over an input, 2: a pass over pass 1's output
    prev_count,   \* the count the first pass returned
    \* ---- a run (main, run_conversion, process_file) ----
    root_kind,    \* what vault_path names: "dir" | "file" | "missing"
    fs,           \* the files under the root: path -> [data, utf8]
    dirs,         \* the directories under the root (<<>> is the root)
    now,          \* the clock, in seconds, when a backup was last named
    args,         \* the parsed command line: [write, no_backup, exclude]
    pc,           \* where the run is
    md_files,     \* find_markdown_files' result
    idx,          \* the file of md_files being processed, from 1
    results,      \* run_conversion's results list
    cur,          \* process_file's and write_file_atomic's locals
    summary,      \* the ConversionSummary returned, or None
    exit_code,    \* main's return value, or None
    run_no,       \* the number of this run
    \* ---- history, read by the properties only ----
    fs0,          \* fs when this run began
    dirs0,        \* dirs when this run began
    hist,         \* per processed file: what the transform found, what was done
    prev_clean,   \* the previous run wrote with backups and no I/O call failed
    backups_made, \* every backup copy created: [path, data]
    faults        \* the calls of process_file in which an I/O call failed

conv_vars == <<content, scan, trail, conv_pc, out, out_count, pass, prev_count>>

run_vars == <<root_kind, fs, dirs, now, args, pc, md_files, idx, results, cur,
              summary, exit_code, run_no, fs0, dirs0, hist, prev_clean,
              backups_made, faults>>

vars == <<conv_vars, run_vars>>

\* ------------------------------------------------------------------ bounds

\* The longest input, in lines.
MaxLines == 4

\* The number of runs over the same root.
MaxRuns == 2

\* The last second of the clock.
MaxClock == 1

\* The number of files whose processing fails, over the runs.
MaxFaults == 1

\* ------------------------------------------------------------------ text

NL == "\n"
SP == " "

\* The characters str.strip() and str.lstrip() remove: every character c with
\* c.isspace().  Those a TLA+ string cannot hold are written by code point.
Whitespace ==
    {" ", "\t", "\n", "\r", "\f",
     "U+000B", "U+001C", "U+001D", "U+001E", "U+001F", "U+0085", "U+00A0",
     "U+1680", "U+2000", "U+2001", "U+2002", "U+2003", "U+2004", "U+2005",
     "U+2006", "U+2007", "U+2008", "U+2009", "U+200A", "U+2028", "U+2029",
     "U+202F", "U+205F", "U+3000"}

RECURSIVE lstrip(_)
lstrip(s) ==
    IF s = <<>> THEN <<>>
    ELSE IF Head(s) \in Whitespace THEN lstrip(Tail(s))
    ELSE s

RECURSIVE rstrip(_)
rstrip(s) ==
    IF s = <<>> THEN <<>>
    ELSE IF s[Len(s)] \in Whitespace THEN rstrip(SubSeq(s, 1, Len(s) - 1))
    ELSE s

strip(s) == rstrip(lstrip(s))

startswith(s, p) == Len(s) >= Len(p) /\ SubSeq(s, 1, Len(p)) = p

endswith(s, p) == Len(s) >= Len(p) /\ SubSeq(s, Len(s) - Len(p) + 1, Len(s)) = p

\* content.split("\n"): always at least one line; a trailing "\n" gives a last
\* empty line.
RECURSIVE split(_)
split(s) ==
    IF \A k \in 1..Len(s) : s[k] # NL THEN <<s>>
    ELSE LET k == CHOOSE j \in 1..Len(s) :
                      s[j] = NL /\ \A m \in 1..(j - 1) : s[m] # NL
         IN  <<SubSeq(s, 1, k - 1)>> \o split(SubSeq(s, k + 1, Len(s)))

\* "\n".join(lines)
RECURSIVE join(_)
join(ls) ==
    IF ls = <<>> THEN <<>>
    ELSE IF Len(ls) = 1 THEN ls[1]
    ELSE ls[1] \o <<NL>> \o join(Tail(ls))

\* The backquote character (U+0060), which a TLA+ string cannot hold.
BQ == "bq"

Backticks == <<BQ, BQ, BQ>>
Tildes == <<"~", "~", "~">>
Dashes == <<"-", "-", "-">>

\* code_fence_pattern = None
None == "None"

\* ------------------------------------------------------- the heading pattern

\* The longest run of spaces at the start of a line.
RECURSIVE LeadingSpaces(_)
LeadingSpaces(s) ==
    IF s # <<>> /\ Head(s) = SP THEN 1 + LeadingSpaces(Tail(s)) ELSE 0

\* A mutation of the pattern: the space after "#" is not required.
H1MatchNoSpace(line) ==
    \E n \in 0..3 :
        /\ Len(line) >= n + 1
        /\ \A k \in 1..n : line[k] = SP
        /\ line[n + 1] = "#"

\* A mutation of the pattern: any number of leading "#" before the space.
H1MatchAnyDepth(line) ==
    \E n \in 0..3 : \E d \in 1..Len(line) :
        /\ Len(line) >= n + d + 1
        /\ \A k \in 1..n : line[k] = SP
        /\ \A k \in (n + 1)..(n + d) : line[k] = "#"
        /\ line[n + d + 1] = SP

\* h1_pattern.match(line) for ^( {0,3})(# )(.*)$ : some n in 0..3 spaces, then
\* "#", then a space; (.*)$ takes whatever remains (a line holds no "\n").
H1Match(line) ==
    \E n \in 0..3 :
        /\ Len(line) >= n + 2
        /\ \A k \in 1..n : line[k] = SP
        /\ line[n + 1] = "#"
        /\ line[n + 2] = SP

\* match.group(1): the spaces the match consumed. The quantifier is greedy and
\* "#" must follow it, so on a match this is the whole run of leading spaces.
Group1(line) == SubSeq(line, 1, LeadingSpaces(line))

\* match.group(3): everything after "# ".
Group3(line) == SubSeq(line, Len(Group1(line)) + 3, Len(line))

\* f"{leading_spaces}## {rest_of_line}"
NewLine(line) == Group1(line) \o <<"#", "#", SP>> \o Group3(line)

\* ------------------------------------------------------------ the line loop

\* The locals of convert_h1_to_h2 before the loop (lines 146-153). i is the
\* index enumerate() gives the next line, from 0.
InitScan(c) ==
    [ lines |-> split(c),
      i |-> 0,
      result_lines |-> <<>>,
      replacement_count |-> 0,
      in_frontmatter |-> FALSE,
      in_code_block |-> FALSE,
      code_fence_pattern |-> None ]

CurLine(s) == s.lines[s.i + 1]

\* A mutation: the i == 0 test is dropped, so any bare --- opens frontmatter.
IsFrontmatterStartAnywhere(i, line) == strip(line) = Dashes

\* i == 0 and line.strip() == "---"
IsFrontmatterStart(i, line) == i = 0 /\ strip(line) = Dashes

\* A mutation: a fence closes on a line of either marker family.
FenceClosesAny(s, stripped) ==
    startswith(stripped, Backticks) \/ startswith(stripped, Tildes)

\* stripped.startswith(code_fence_pattern), line 186
FenceCloses(s, stripped) == startswith(stripped, s.code_fence_pattern)

\* The branch of the loop body the next line takes, by the code's tests in the
\* code's order (lines 160-201).
Branch(s) ==
    LET line == CurLine(s)
        stripped == lstrip(line)
    IN  IF IsFrontmatterStart(s.i, line) THEN "frontmatter_start"
        ELSE IF s.in_frontmatter THEN "frontmatter"
        ELSE IF ~s.in_code_block /\ startswith(stripped, Backticks) THEN "fence_open_bq"
        ELSE IF ~s.in_code_block /\ startswith(stripped, Tildes) THEN "fence_open_tilde"
        ELSE IF s.in_code_block THEN "fenced"
        ELSE IF H1Match(line) THEN "heading"
        ELSE "plain"

Emit(s, l) == [s EXCEPT !.result_lines = Append(@, l), !.i = @ + 1]

\* One iteration of the loop body (lines 158-201).
LoopBody(s) ==
    LET line == CurLine(s)
        b == Branch(s)
    IN  CASE b = "frontmatter_start" ->
               [Emit(s, line) EXCEPT !.in_frontmatter = TRUE]
          [] b = "frontmatter" ->
               [Emit(s, line) EXCEPT
                    !.in_frontmatter = IF strip(line) = Dashes THEN FALSE ELSE @]
          [] b = "fence_open_bq" ->
               [Emit(s, line) EXCEPT !.in_code_block = TRUE,
                                     !.code_fence_pattern = Backticks]
          [] b = "fence_open_tilde" ->
               [Emit(s, line) EXCEPT !.in_code_block = TRUE,
                                     !.code_fence_pattern = Tildes]
          [] b = "fenced" ->
               IF FenceCloses(s, lstrip(line))
               THEN [Emit(s, line) EXCEPT !.in_code_block = FALSE,
                                          !.code_fence_pattern = None]
               ELSE Emit(s, line)
          [] b = "heading" ->
               [Emit(s, NewLine(line)) EXCEPT !.replacement_count = @ + 1]
          [] b = "plain" -> Emit(s, line)

RECURSIVE RunLoop(_)
RunLoop(s) == IF s.i = Len(s.lines) THEN s ELSE RunLoop(LoopBody(s))

\* convert_h1_to_h2(content): <<new_content, replacement_count>> (line 203).
convert_h1_to_h2(c) ==
    LET s == RunLoop(InitScan(c))
    IN  <<join(s.result_lines), s.replacement_count>>

\* ----------------------------------------------- the transform, step by step

\* The lines inputs are made of: headings of every shape the pattern tells
\* apart, fence lines of both families, the frontmatter delimiter, plain text.
LineVocab ==
    { <<"#", SP, "x">>,                    \* "# x"
      <<SP, SP, SP, "#", SP>>,             \* three spaces, "# "
      <<SP, SP, SP, SP, "#", SP, "x">>,    \* four spaces, "# x"
      <<"#", "x">>,                        \* "#x"
      <<"#", "#", SP, "x">>,               \* "## x"
      Backticks,
      <<"\t", "~", "~", "~", "x">>,        \* tab, "~~~x"
      <<"\f", "-", "-", "-", "\r">>,       \* form feed, "---", carriage return
      <<"x">> }

RECURSIVE LineSeqs(_)
LineSeqs(n) ==
    IF n = 0 THEN {<<>>}
    ELSE LET shorter == LineSeqs(n - 1)
         IN  shorter \cup { Append(ls, l) : ls \in { x \in shorter : Len(x) = n - 1 },
                                            l \in LineVocab }

\* Every input text of one to MaxLines lines.
Inputs == { join(ls) : ls \in LineSeqs(MaxLines) \ {<<>>} }

\* The run's variables before anything is assigned to them.
NoArgs == [write |-> FALSE, no_backup |-> FALSE, exclude |-> {}]

NoCur ==
    [ path |-> <<>>, raw |-> <<>>, encoding_used |-> "utf-8", new_content |-> <<>>,
      replacements |-> 0, backup |-> "none", temp_path |-> <<>>, exc |-> None ]

NoSummary ==
    [files_scanned |-> 0, files_changed |-> 0, total_replacements |-> 0,
     errors |-> <<>>]

\* No run is under way: the transform is studied on its own.
RunIdle ==
    /\ root_kind = "missing"
    /\ fs = <<>>
    /\ dirs = {}
    /\ now = 0
    /\ args = NoArgs
    /\ pc = "off"
    /\ md_files = <<>>
    /\ idx = 0
    /\ results = <<>>
    /\ cur = NoCur
    /\ summary = NoSummary
    /\ exit_code = None
    /\ run_no = 0
    /\ fs0 = <<>>
    /\ dirs0 = {}
    /\ hist = <<>>
    /\ prev_clean = FALSE
    /\ backups_made = {}
    /\ faults = 0

InitConv ==
    /\ content \in Inputs
    /\ scan = InitScan(content)
    /\ trail = <<>>
    /\ conv_pc = "scan"
    /\ out = <<>>
    /\ out_count = 0
    /\ pass = 1
    /\ prev_count = 0
    /\ RunIdle

\* What the history keeps of one iteration: its branch, and the counter and the
\* frontmatter flag as the iteration left them.
Visit(b, s) ==
    [branch |-> b, count |-> s.replacement_count, fm |-> s.in_frontmatter]

\* Line 0 is a bare --- (lines 160-163).
FrontmatterStart ==
    /\ conv_pc = "scan"
    /\ scan.i < Len(scan.lines)
    /\ Branch(scan) = "frontmatter_start"
    /\ scan' = LoopBody(scan)
    /\ trail' = Append(trail, Visit("frontmatter_start", LoopBody(scan)))
    /\ UNCHANGED <<content, conv_pc, out, out_count, pass, prev_count, run_vars>>

\* A line in frontmatter, the closing --- included (lines 165-169).
FrontmatterLine ==
    /\ conv_pc = "scan"
    /\ scan.i < Len(scan.lines)
    /\ Branch(scan) = "frontmatter"
    /\ scan' = LoopBody(scan)
    /\ trail' = Append(trail, Visit("frontmatter", LoopBody(scan)))
    /\ UNCHANGED <<content, conv_pc, out, out_count, pass, prev_count, run_vars>>

\* A backquote fence opens (lines 175-179).
FenceOpenBackticks ==
    /\ conv_pc = "scan"
    /\ scan.i < Len(scan.lines)
    /\ Branch(scan) = "fence_open_bq"
    /\ scan' = LoopBody(scan)
    /\ trail' = Append(trail, Visit("fence_open_bq", LoopBody(scan)))
    /\ UNCHANGED <<content, conv_pc, out, out_count, pass, prev_count, run_vars>>

\* A tilde fence opens (lines 180-184).
FenceOpenTildes ==
    /\ conv_pc = "scan"
    /\ scan.i < Len(scan.lines)
    /\ Branch(scan) = "fence_open_tilde"
    /\ scan' = LoopBody(scan)
    /\ trail' = Append(trail, Visit("fence_open_tilde", LoopBody(scan)))
    /\ UNCHANGED <<content, conv_pc, out, out_count, pass, prev_count, run_vars>>

\* A line in a fenced block, its closing line included (lines 185-190).
FencedLine ==
    /\ conv_pc = "scan"
    /\ scan.i < Len(scan.lines)
    /\ Branch(scan) = "fenced"
    /\ scan' = LoopBody(scan)
    /\ trail' = Append(trail, Visit("fenced", LoopBody(scan)))
    /\ UNCHANGED <<content, conv_pc, out, out_count, pass, prev_count, run_vars>>

\* A level-1 heading is rewritten (lines 193-199).
HeadingLine ==
    /\ conv_pc = "scan"
    /\ scan.i < Len(scan.lines)
    /\ Branch(scan) = "heading"
    /\ scan' = LoopBody(scan)
    /\ trail' = Append(trail, Visit("heading", LoopBody(scan)))
    /\ UNCHANGED <<content, conv_pc, out, out_count, pass, prev_count, run_vars>>

\* Any other line is kept (lines 200-201).
PlainLine ==
    /\ conv_pc = "scan"
    /\ scan.i < Len(scan.lines)
    /\ Branch(scan) = "plain"
    /\ scan' = LoopBody(scan)
    /\ trail' = Append(trail, Visit("plain", LoopBody(scan)))
    /\ UNCHANGED <<content, conv_pc, out, out_count, pass, prev_count, run_vars>>

\* return "\n".join(result_lines), replacement_count
Return ==
    /\ conv_pc = "scan"
    /\ scan.i = Len(scan.lines)
    /\ out' = join(scan.result_lines)
    /\ out_count' = scan.replacement_count
    /\ conv_pc' = "done"
    /\ UNCHANGED <<content, scan, trail, pass, prev_count, run_vars>>

\* The transform is run again on what it returned.
SecondPass ==
    /\ conv_pc = "done"
    /\ pass = 1
    /\ content' = out
    /\ scan' = InitScan(out)
    /\ trail' = <<>>
    /\ conv_pc' = "scan"
    /\ pass' = 2
    /\ prev_count' = out_count
    /\ UNCHANGED <<out, out_count, run_vars>>

NextConv ==
    \/ FrontmatterStart
    \/ FrontmatterLine
    \/ FenceOpenBackticks
    \/ FenceOpenTildes
    \/ FencedLine
    \/ HeadingLine
    \/ PlainLine
    \/ Return
    \/ SecondPass

SpecConv == InitConv /\ [][NextConv]_vars

\* ------------------------------------------------- claims on the transform

Spaces(n) == [k \in 1..n |-> SP]

\* The line is n spaces, one "#", one space, then any text.
H1Shape(line, n) ==
    Len(line) >= n + 2 /\ SubSeq(line, 1, n + 2) = Spaces(n) \o <<"#", SP>>

\* The same n spaces, "## ", and the same text.
Rewritten(line, n) ==
    Spaces(n) \o <<"#", "#", SP>> \o SubSeq(line, n + 3, Len(line))

\* The lines scanned so far.
Scanned == 1..Len(trail)

\* The counter before line k was scanned.
CountBefore(k) == IF k = 1 THEN 0 ELSE trail[k - 1].count

Counted(k) == trail[k].count # CountBefore(k)

\* C1: a line scanned outside frontmatter and outside a fenced block is
\* re-emitted as its leading spaces + "## " + its text if and only if it is zero
\* to three spaces, one "#", one space and any text; every other such line is
\* emitted unchanged; the count is the number of lines rewritten, and it is the
\* count returned.
C1_HeadingRewrite ==
    /\ \A k \in Scanned :
           trail[k].branch \in {"heading", "plain"} =>
               LET line == scan.lines[k]
                   res == scan.result_lines[k]
               IN  IF \E n \in 0..3 : H1Shape(line, n)
                   THEN /\ \E n \in 0..3 : H1Shape(line, n) /\ res = Rewritten(line, n)
                        /\ Counted(k)
                   ELSE res = line /\ ~Counted(k)
    /\ scan.replacement_count =
           Cardinality({ k \in Scanned : scan.result_lines[k] # scan.lines[k] })
    /\ conv_pc = "done" =>
           /\ split(out) = scan.result_lines
           /\ out_count =
                  Cardinality({ k \in 1..Len(scan.lines) :
                                    split(out)[k] # split(content)[k] })

\* An indented heading has been rewritten, and a hashtag, a level-2 heading and
\* a line of four leading spaces have been scanned as plain lines.
C1_Witness ==
    /\ conv_pc = "done"
    /\ pass = 1
    /\ \E k \in Scanned :
           /\ trail[k].branch = "heading"
           /\ scan.lines[k] = <<SP, SP, SP, "#", SP>>
           /\ scan.result_lines[k] = <<SP, SP, SP, "#", "#", SP>>
    /\ \E k \in Scanned :
           /\ trail[k].branch = "plain"
           /\ scan.lines[k] \in { <<"#", "x">>, <<"#", "#", SP, "x">>,
                                  <<SP, SP, SP, SP, "#", SP, "x">> }
    /\ out_count = 1

\* Where the frontmatter block ends: 0 when line 0 is no bare ---, else the
\* next line that trims to ---, or the last line when there is none.
FrontmatterEnd(lines) ==
    IF strip(lines[1]) # Dashes THEN 0
    ELSE IF \E j \in 2..Len(lines) : strip(lines[j]) = Dashes
         THEN CHOOSE j \in 2..Len(lines) :
                  /\ strip(lines[j]) = Dashes
                  /\ \A m \in 2..(j - 1) : strip(lines[m]) # Dashes
         ELSE Len(lines)

OpensWith(line, marker) == startswith(lstrip(line), marker)

\* The last line of the block that line k opens with `marker`: the next line
\* that starts with the same marker, or the last line when there is none.
BlockEnd(lines, k, marker) ==
    IF \E j \in (k + 1)..Len(lines) : OpensWith(lines[j], marker)
    THEN CHOOSE j \in (k + 1)..Len(lines) :
             /\ OpensWith(lines[j], marker)
             /\ \A m \in (k + 1)..(j - 1) : ~OpensWith(lines[m], marker)
    ELSE Len(lines)

\* The lines of fenced blocks from line k on, line k being outside any block.
RECURSIVE FencedFrom(_, _)
FencedFrom(lines, k) ==
    IF k > Len(lines) THEN {}
    ELSE IF OpensWith(lines[k], Backticks)
         THEN LET e == BlockEnd(lines, k, Backticks)
              IN  (k..e) \cup FencedFrom(lines, e + 1)
    ELSE IF OpensWith(lines[k], Tildes)
         THEN LET e == BlockEnd(lines, k, Tildes)
              IN  (k..e) \cup FencedFrom(lines, e + 1)
    ELSE FencedFrom(lines, k + 1)

Fenced(lines) == FencedFrom(lines, FrontmatterEnd(lines) + 1)

\* C2: every line of a fenced block, from the line that opens it to the next
\* line that starts with the same marker family, is emitted unchanged and is
\* not counted, whatever it looks like; a line of the other family inside the
\* block does not end it.
C2_FencedUntouched ==
    \A k \in Scanned :
        k \in Fenced(scan.lines) =>
            /\ scan.result_lines[k] = scan.lines[k]
            /\ ~Counted(k)
            /\ trail[k].branch \in {"fence_open_bq", "fence_open_tilde", "fenced"}

\* A backquote block holds a tilde line and then a heading-looking line, which
\* is still protected.
C2_Witness ==
    /\ conv_pc = "done"
    /\ Len(scan.lines) = 3
    /\ scan.lines[1] = Backticks
    /\ OpensWith(scan.lines[2], Tildes)
    /\ scan.lines[3] = <<"#", SP, "x">>
    /\ scan.result_lines[3] = <<"#", SP, "x">>
    /\ out_count = 0

\* C3: when line 0 trims to ---, every line up to and including the next line
\* that trims to --- (or to the end of the input) is emitted unchanged and not
\* counted; and frontmatter is entered from line 0 only.
C3_FrontmatterUntouched ==
    /\ \A k \in Scanned :
           k <= FrontmatterEnd(scan.lines) =>
               /\ scan.result_lines[k] = scan.lines[k]
               /\ ~Counted(k)
    /\ \A k \in Scanned :
           (trail[k].fm /\ (k = 1 \/ ~trail[k - 1].fm)) => k = 1
    /\ \A k \in Scanned :
           trail[k].branch \in {"frontmatter_start", "frontmatter"}
               <=> k <= FrontmatterEnd(scan.lines)

\* A heading-looking line inside frontmatter is kept, and one after the closing
\* delimiter is rewritten.
C3_Witness ==
    /\ conv_pc = "done"
    /\ Len(scan.lines) = 4
    /\ strip(scan.lines[1]) = Dashes
    /\ scan.lines[1] # Dashes
    /\ scan.lines[2] = <<"#", SP, "x">>
    /\ scan.result_lines[2] = <<"#", SP, "x">>
    /\ strip(scan.lines[3]) = Dashes
    /\ scan.result_lines[3] = scan.lines[3]
    /\ scan.result_lines[4] = <<"#", "#", SP, "x">>
    /\ out_count = 1

\* C4: a second pass over the first pass's output returns it unchanged with a
\* count of zero.
C4_Idempotent ==
    (conv_pc = "done" /\ pass = 2) => (out = content /\ out_count = 0)

\* The second pass has ended on an output that opens with frontmatter, in which
\* the first pass rewrote a heading, and which holds a fenced block.
C4_Witness ==
    /\ conv_pc = "done"
    /\ pass = 2
    /\ prev_count > 0
    /\ trail[1].branch = "frontmatter_start"
    /\ \E k \in Scanned : trail[k].branch = "fence_open_bq"
    /\ \E k \in Scanned :
           trail[k].branch = "plain" /\ scan.lines[k] = <<"#", "#", SP, "x">>

\* ---------------------------------------------------------------- paths

\* A path is the sequence of its parts relative to the vault root; a part is a
\* sequence of characters.
DotMd == <<".", "m", "d">>

NameA == <<"a", ".", "m", "d">>
NameB == <<"b", ".", "m", "d">>
NameHidden == <<".", "h", ".", "m", "d">>
NameTxt == <<"n", ".", "t", "x", "t">>
DirSub == <<"s", "u", "b">>
DirGit == <<".", "g", "i", "t">>
DirNodeModules == <<"n", "o", "d", "e", "_", "m", "o", "d", "u", "l", "e", "s">>

\* "_backups", line 221
DirBackups == <<"_", "b", "a", "c", "k", "u", "p", "s">>

DEFAULT_EXCLUDES ==
    { <<".", "o", "b", "s", "i", "d", "i", "a", "n">>,
      DirGit,
      DirNodeModules,
      <<".", "t", "r", "a", "s", "h">>,
      <<".", "D", "S", "_", "S", "t", "o", "r", "e">> }

\* The characters of the model's file names in code-point order.
CodePoints ==
    <<".", "0", "1", "2", "3", "4", "5", "6", "7", "8", "9",
      "D", "S", "_",
      "a", "b", "c", "d", "e", "g", "h", "i", "k", "l", "m", "n", "o", "p",
      "r", "s", "t", "u", "x">>

Ord(c) == CHOOSE k \in 1..Len(CodePoints) : CodePoints[k] = c

\* str < str
RECURSIVE StrLess(_, _)
StrLess(x, y) ==
    IF y = <<>> THEN FALSE
    ELSE IF x = <<>> THEN TRUE
    ELSE IF Head(x) = Head(y) THEN StrLess(Tail(x), Tail(y))
    ELSE Ord(Head(x)) < Ord(Head(y))

\* Path < Path: the parts compared in order, as lists of strings are.
RECURSIVE PathLess(_, _)
PathLess(x, y) ==
    IF y = <<>> THEN FALSE
    ELSE IF x = <<>> THEN TRUE
    ELSE IF Head(x) = Head(y) THEN PathLess(Tail(x), Tail(y))
    ELSE StrLess(Head(x), Head(y))

\* sorted(md_files), line 122
RECURSIVE sorted(_)
sorted(ps) ==
    IF ps = {} THEN <<>>
    ELSE LET m == CHOOSE x \in ps : \A y \in ps \ {x} : PathLess(x, y)
         IN  <<m>> \o sorted(ps \ {m})

Parent(path) == SubSeq(path, 1, Len(path) - 1)

Name(path) == path[Len(path)]

\* The index of the last "." of a name, or 0.
LastDot(name) ==
    IF \E k \in 1..Len(name) : name[k] = "."
    THEN CHOOSE k \in 1..Len(name) :
             name[k] = "." /\ \A m \in (k + 1)..Len(name) : name[m] # "."
    ELSE 0

\* Path.suffix: from the last dot on, unless the name has none or starts with it.
Suffix(name) ==
    IF LastDot(name) <= 1 THEN <<>> ELSE SubSeq(name, LastDot(name), Len(name))

\* Path.stem: the name without its suffix.
Stem(name) == SubSeq(name, 1, Len(name) - Len(Suffix(name)))

\* -------------------------------------------------------------- discovery

\* part.startswith(".") or part in all_excludes (lines 86 and 111)
IsExcludedPart(part, extra_excludes) ==
    startswith(part, <<".">>) \/ part \in (DEFAULT_EXCLUDES \cup extra_excludes)

\* should_exclude(path, vault_root, extra_excludes); a walked file is under
\* the root, so relative_to does not raise.
should_exclude(path, extra_excludes) ==
    \E k \in 1..Len(path) : IsExcludedPart(path[k], extra_excludes)

\* os.walk reaches a file when no directory above it was pruned from dirs[:]
\* (lines 109-112).
Walked(path, extra_excludes) ==
    \A k \in 1..(Len(path) - 1) : ~IsExcludedPart(path[k], extra_excludes)

\* find_markdown_files(vault_path, extra_excludes) over the files `files`.
find_markdown_files(files, extra_excludes) ==
    sorted({ path \in files :
                 /\ Walked(path, extra_excludes)
                 /\ endswith(Name(path), DotMd)
                 /\ ~startswith(Name(path), <<".">>)
                 /\ ~should_exclude(path, extra_excludes) })

\* ------------------------------------------------------------ file contents

\* open(file_path, "r") translates "\r\n" and "\r" to "\n" as it reads.
RECURSIVE UniversalNewlines(_)
UniversalNewlines(d) ==
    IF d = <<>> THEN <<>>
    ELSE IF Head(d) = "\r"
         THEN IF Len(d) >= 2 /\ d[2] = NL
              THEN <<NL>> \o UniversalNewlines(Tail(Tail(d)))
              ELSE <<NL>> \o UniversalNewlines(Tail(d))
    ELSE <<Head(d)>> \o UniversalNewlines(Tail(d))

\* The byte 0xE9, which is no UTF-8 on its own and which latin-1 decodes to
\* U+00E9 and encodes from it. The other bytes of the files are ASCII.
ByteE9 == "0xE9"

\* The bytes decode as UTF-8.
IsUtf8(data) == \A k \in 1..Len(data) : data[k] # ByteE9

\* A file: its bytes, and whether they are UTF-8.
File(data) == [data |-> data, utf8 |-> IsUtf8(data)]

\* The encoding the loop of lines 301-308 stops at. Bytes that are not UTF-8
\* are not UTF-8 with a byte-order mark either, and latin-1 decodes any bytes,
\* so content is never None after the loop.
EncodingUsed(file) == IF file.utf8 THEN "utf-8" ELSE "latin-1"

DataH1 == <<"#", SP, "T">>
DataH2 == <<"#", "#", SP, "T">>
DataCRLF == <<"#", SP, "\r", NL, ByteE9>>

\* The vaults a run starts from: a.md and sub/b.md are eligible; the others sit
\* under excluded directories, are hidden or are not Markdown.
Vaults ==
    { [ path \in { <<NameA>>, <<DirSub, NameB>>, <<DirGit, NameA>>,
                   <<DirNodeModules, NameB>>, <<NameHidden>>, <<NameTxt>> } |->
          IF path = <<NameA>> THEN a
          ELSE IF path = <<DirSub, NameB>> THEN b
          ELSE File(DataH1) ] :
        a \in { File(DataCRLF), File(DataH2) },
        b \in { File(DataH1) } }

\* The values of --exclude tried: the folder of sub/b.md, and the folder
\* create_backup writes to.
ExcludeChoices == { {DirSub}, {DirBackups} }

\* ------------------------------------------------------------ backup, write

Digits == <<"0", "1", "2", "3", "4", "5", "6", "7", "8", "9">>

\* datetime.now().strftime("%Y%m%d_%H%M%S"): one name per second. The runs
\* modelled fall within one minute's first seconds; the fields that do not
\* change over them are left out of the name.
Timestamp(t) == <<Digits[t + 1]>>

\* backup_path of create_backup (lines 221-233).
BackupPath(file_path, t) ==
    <<DirBackups>> \o Parent(file_path)
        \o << Stem(Name(file_path)) \o <<"_">> \o Timestamp(t)
                  \o Suffix(Name(file_path)) >>

\* The first `n` directories the two mkdir calls make, in the order they make
\* them: backup_dir (line 222), then backup_subdir's missing parents and
\* backup_subdir itself (mkdir(parents=True), line 227).
BackupDirsMade(file_path, n) ==
    { <<DirBackups>> \o SubSeq(Parent(file_path), 1, k) : k \in 0..(n - 1) }

\* The directories mkdir(exist_ok=True) and mkdir(parents=True, exist_ok=True)
\* leave in place when both return (lines 222-227).
BackupDirs(file_path) == BackupDirsMade(file_path, Len(Parent(file_path)) + 1)

\* What a file being written holds when the writing stops early: any leading
\* part of the bytes, from none to all.
Truncations(file) ==
    { File(SubSeq(file.data, 1, k)) : k \in 0..Len(file.data) }

\* mkstemp(suffix=".tmp", prefix=f".{file_path.name}_", dir=dir_path): a name
\* no file of the directory has. The random part is modelled by the first
\* digit that is free.
TempPath(file_path, files) ==
    LET name(k) == <<".">> \o Name(file_path) \o <<"_">> \o <<Digits[k]>>
                       \o <<".", "t", "m", "p">>
        k == CHOOSE j \in 1..Len(Digits) :
                 /\ Parent(file_path) \o <<name(j)>> \notin files
                 /\ \A m \in 1..(j - 1) : Parent(file_path) \o <<name(m)>> \in files
    IN  Parent(file_path) \o <<name(k)>>

\* A mutation: the new content is written over the target itself.
WriteDestinationInPlace(c) == c.path

\* Where write_file_atomic writes the new content: the temporary file (line 261).
WriteDestination(c) == c.temp_path

\* The file system with `path` holding `file`.
Put(files, path, file) ==
    [ q \in DOMAIN files \cup {path} |-> IF q = path THEN file ELSE files[q] ]

\* The file system without `path`.
Remove(files, path) == [ q \in DOMAIN files \ {path} |-> files[q] ]

\* ---------------------------------------------------------------- results

ConversionResult(file_path, replacements, modified, error) ==
    [file_path |-> file_path, replacements |-> replacements,
     modified |-> modified, error |-> error]

RECURSIVE SumReplacements(_)
SumReplacements(rs) ==
    IF rs = <<>> THEN 0 ELSE Head(rs).replacements + SumReplacements(Tail(rs))

\* A mutation: the files counted are those written.
files_changed_modified(rs) ==
    Cardinality({ k \in 1..Len(rs) : rs[k].modified })

\* sum(1 for r in results if r.replacements > 0), line 385
files_changed(rs) ==
    Cardinality({ k \in 1..Len(rs) : rs[k].replacements > 0 })

\* str(e) of the exception caught at line 339: its message, which is empty
\* for an exception raised without one (MemoryError(), OSError()).
str(label) == {label, ""}

\* The truth value of `r.error`, an Optional[str]: None and "" are false.
Truthy(error) == error # None /\ error # ""

\* [f"{r.file_path}: {r.error}" for r in results if r.error], line 387
RECURSIVE errors(_)
errors(rs) ==
    IF rs = <<>> THEN <<>>
    ELSE IF Truthy(Head(rs).error)
         THEN <<<<Head(rs).file_path, Head(rs).error>>>> \o errors(Tail(rs))
    ELSE errors(Tail(rs))

\* The ConversionSummary of lines 413-418.
ConversionSummary(files, rs) ==
    [ files_scanned |-> Len(files),
      files_changed |-> files_changed(rs),
      total_replacements |-> SumReplacements(rs),
      errors |-> errors(rs) ]

\* return 1 if summary.errors else 0, line 489
ExitStatus(summ) == IF summ.errors # <<>> THEN 1 ELSE 0

\* A mutation: every run writes.
DryRunNever(a) == FALSE

\* dry_run = not args.write, line 477
DryRun(a) == ~a.write

\* create_backups = args.backup and not args.no_backup, line 478; args.backup
\* is True whatever the command line (store_true with default=True).
CreateBackups(a) == TRUE /\ ~a.no_backup

\* A mutation: the backup is skipped.
AfterReadNoBackup(create_backups) == "mkstemp"

\* What follows the dry-run test in write mode: the backup when enabled, then
\* the write (lines 330-335).
AfterRead(create_backups) == IF create_backups THEN "backup" ELSE "mkstemp"

\* ------------------------------------------------------------------ a run

ConvIdle ==
    /\ content = <<>>
    /\ scan = InitScan(<<>>)
    /\ trail = <<>>
    /\ conv_pc = "idle"
    /\ out = <<>>
    /\ out_count = 0
    /\ pass = 1
    /\ prev_count = 0

\* The command lines tried: --write and --no-backup given or not, --exclude
\* with a folder or without. Every run over a root has the same command line.
ArgChoices ==
    [write : BOOLEAN, no_backup : BOOLEAN, exclude : ExcludeChoices]

Init ==
    /\ ConvIdle
    /\ root_kind \in {"dir", "file", "missing"}
    /\ fs \in Vaults
    /\ dirs = {<<>>, <<DirSub>>, <<DirGit>>, <<DirNodeModules>>}
    /\ now = 0
    /\ args \in ArgChoices
    /\ pc = "main"
    /\ md_files = <<>>
    /\ idx = 0
    /\ results = <<>>
    /\ cur = NoCur
    /\ summary = NoSummary
    /\ exit_code = None
    /\ run_no = 1
    /\ fs0 = fs
    /\ dirs0 = dirs
    /\ hist = <<>>
    /\ prev_clean = FALSE
    /\ backups_made = {}
    /\ faults = 0


\* main: vault_path does not exist (lines 469-471).
MainMissingRoot ==
    /\ pc = "main"
    /\ root_kind = "missing"
    /\ exit_code' = 1
    /\ pc' = "exit"
    /\ fs0' = fs
    /\ dirs0' = dirs
    /\ UNCHANGED <<conv_vars, faults, root_kind, fs, dirs, now, args, md_files, idx, results,
                   cur, summary, run_no, hist, prev_clean, backups_made>>

\* main: vault_path is not a directory (lines 473-475).
MainRootNotDir ==
    /\ pc = "main"
    /\ root_kind = "file"
    /\ exit_code' = 1
    /\ pc' = "exit"
    /\ fs0' = fs
    /\ dirs0' = dirs
    /\ UNCHANGED <<conv_vars, faults, root_kind, fs, dirs, now, args, md_files, idx, results,
                   cur, summary, run_no, hist, prev_clean, backups_made>>

\* main calls run_conversion (lines 477-487).
MainRun ==
    /\ pc = "main"
    /\ root_kind = "dir"
    /\ pc' = "discover"
    /\ fs0' = fs
    /\ dirs0' = dirs
    /\ UNCHANGED <<conv_vars, faults, root_kind, fs, dirs, now, args, md_files, idx, results,
                   cur, summary, exit_code, run_no, hist, prev_clean,
                   backups_made>>

\* run_conversion: find_markdown_files, then the loop starts (lines 374-380).
Discover ==
    /\ pc = "discover"
    /\ md_files' = find_markdown_files(DOMAIN fs, args.exclude)
    /\ results' = <<>>
    /\ hist' = <<>>
    /\ idx' = 1
    /\ pc' = "file"
    /\ UNCHANGED <<conv_vars, faults, root_kind, fs, dirs, now, args, cur, summary,
                   exit_code, run_no, fs0, dirs0, prev_clean, backups_made>>

\* What the history keeps of one call of process_file.
Done(read, found, new, backup, write, unlink, temp_left, before, after) ==
    [ read |-> read, found |-> found, new |-> new, backup |-> backup,
      write |-> write, unlink |-> unlink, temp_left |-> temp_left,
      before |-> before, after |-> after ]

\* process_file returns `r`; run_conversion appends it and takes the next file
\* (lines 381-383).
ReturnResult(r, h) ==
    /\ results' = Append(results, r)
    /\ hist' = Append(hist, h)
    /\ idx' = idx + 1
    /\ cur' = NoCur
    /\ pc' = "file"

FilePath == md_files[idx]

\* open() raises: the except clause returns the error (lines 303, 339-340).
ReadFails ==
    /\ faults < MaxFaults
    /\ faults' = faults + 1
    /\ pc = "file"
    /\ idx <= Len(md_files)
    /\ \E msg \in str("open failed") :
           ReturnResult(ConversionResult(FilePath, 0, FALSE, msg),
                        Done("failed", 0, <<>>, "none", "none", "none", FALSE,
                             fs[FilePath].data, fs[FilePath].data))
    /\ UNCHANGED <<conv_vars, root_kind, fs, dirs, now, args, md_files, summary,
                   exit_code, run_no, fs0, dirs0, prev_clean, backups_made>>

\* What process_file holds once the file is read and transformed (lines 298-318).
Read(file_path) ==
    LET file == fs[file_path]
        conv == convert_h1_to_h2(UniversalNewlines(file.data))
    IN  [ path |-> file_path,
          raw |-> file.data,
          encoding_used |-> EncodingUsed(file),
          new_content |-> conv[1],
          replacements |-> conv[2],
          backup |-> "none",
          temp_path |-> <<>>,
          exc |-> None ]

\* replacements == 0 (lines 320-321).
ReadUnchanged ==
    /\ pc = "file"
    /\ idx <= Len(md_files)
    /\ LET read == Read(FilePath)
       IN  /\ read.replacements = 0
           /\ ReturnResult(ConversionResult(FilePath, 0, FALSE, None),
                           Done("ok", 0, read.new_content, "none", "none",
                                "none", FALSE, read.raw, read.raw))
    /\ UNCHANGED <<conv_vars, faults, root_kind, fs, dirs, now, args, md_files, summary,
                   exit_code, run_no, fs0, dirs0, prev_clean, backups_made>>

\* dry_run: the count is reported and nothing is written (lines 327-328).
ReadDryRun ==
    /\ pc = "file"
    /\ idx <= Len(md_files)
    /\ DryRun(args)
    /\ LET read == Read(FilePath)
       IN  /\ read.replacements > 0
           /\ ReturnResult(ConversionResult(FilePath, read.replacements,
                                            FALSE, None),
                           Done("ok", read.replacements, read.new_content,
                                "none", "none", "none", FALSE, read.raw,
                                read.raw))
    /\ UNCHANGED <<conv_vars, faults, root_kind, fs, dirs, now, args, md_files, summary,
                   exit_code, run_no, fs0, dirs0, prev_clean, backups_made>>

\* Write mode and something to convert: on to the backup or the write
\* (lines 327-335).
ReadToWrite ==
    /\ pc = "file"
    /\ idx <= Len(md_files)
    /\ ~DryRun(args)
    /\ LET read == Read(FilePath)
       IN  /\ read.replacements > 0
           /\ cur' = read
    /\ pc' = AfterRead(CreateBackups(args))
    /\ UNCHANGED <<conv_vars, faults, root_kind, fs, dirs, now, args, md_files, idx,
                   results, summary, exit_code, run_no, fs0, dirs0, hist,
                   prev_clean, backups_made>>

\* create_backup: the directories are made, the clock is read (datetime.now(),
\* line 231: the second of the last reading or a later one) and the file is
\* copied under a name that holds the time (lines 221-236).
BackupOk ==
    /\ pc = "backup"
    /\ now' \in now..MaxClock
    /\ fs' = Put(fs, BackupPath(cur.path, now'), fs[cur.path])
    /\ backups_made' = backups_made \cup
           { [path |-> BackupPath(cur.path, now'), data |-> fs[cur.path].data] }
    /\ dirs' = dirs \cup BackupDirs(cur.path)
    /\ cur' = [cur EXCEPT !.backup = "ok"]
    /\ pc' = "mkstemp"
    /\ UNCHANGED <<conv_vars, faults, root_kind, args, md_files, idx, results,
                   summary, exit_code, run_no, fs0, dirs0, hist, prev_clean>>

\* create_backup: a mkdir raises, the first (line 222) with no directory made,
\* the second (line 227) with backup_dir made and any number of backup_subdir's
\* parents, backup_subdir itself not; process_file's except clause returns
\* the error (lines 339-340).
BackupMkdirFails ==
    /\ faults < MaxFaults
    /\ faults' = faults + 1
    /\ pc = "backup"
    /\ \E n \in 0..(IF Parent(cur.path) = <<>> THEN 1 ELSE Len(Parent(cur.path))) :
           dirs' = dirs \cup BackupDirsMade(cur.path, n)
    /\ \E msg \in str("mkdir failed") :
           ReturnResult(ConversionResult(cur.path, 0, FALSE, msg),
                        Done("ok", cur.replacements, cur.new_content, "failed", "none", "none",
                             FALSE, cur.raw, fs[cur.path].data))
    /\ UNCHANGED <<conv_vars, root_kind, fs, now, args, md_files, summary,
                   exit_code, run_no, fs0, dirs0, prev_clean, backups_made>>

\* create_backup: shutil.copy2 raises once the directories exist and the clock
\* is read: before it creates the copy (the time read is then in no name),
\* while it writes it, or after the data is copied (in copystat);
\* process_file's except clause returns the error (lines 231-235, 339-340).
BackupCopyFails ==
    /\ faults < MaxFaults
    /\ faults' = faults + 1
    /\ pc = "backup"
    /\ dirs' = dirs \cup BackupDirs(cur.path)
    /\ \/ fs' = fs /\ now' = now
       \/ /\ now' \in now..MaxClock
          /\ \E part \in Truncations(fs[cur.path]) :
                 fs' = Put(fs, BackupPath(cur.path, now'), part)
    /\ \E msg \in str("copy failed") :
           ReturnResult(ConversionResult(cur.path, 0, FALSE, msg),
                        Done("ok", cur.replacements, cur.new_content, "failed", "none", "none",
                             FALSE, cur.raw, fs'[cur.path].data))
    /\ UNCHANGED <<conv_vars, root_kind, args, md_files, summary,
                   exit_code, run_no, fs0, dirs0, prev_clean, backups_made>>

\* write_file_atomic: mkstemp creates the temporary file beside the target
\* (lines 251-258).
MkstempOk ==
    /\ pc = "mkstemp"
    /\ cur' = [cur EXCEPT !.temp_path = TempPath(cur.path, DOMAIN fs)]
    /\ fs' = Put(fs, TempPath(cur.path, DOMAIN fs), [data |-> <<>>, utf8 |-> TRUE])
    /\ pc' = "write"
    /\ UNCHANGED <<conv_vars, faults, root_kind, dirs, now, args, md_files, idx, results,
                   summary, exit_code, run_no, fs0, dirs0, hist, prev_clean,
                   backups_made>>

\* write_file_atomic: mkstemp raises, outside the try (lines 254, 339-340).
MkstempFails ==
    /\ faults < MaxFaults
    /\ faults' = faults + 1
    /\ pc = "mkstemp"
    /\ \E msg \in str("mkstemp failed") :
           ReturnResult(ConversionResult(cur.path, 0, FALSE, msg),
                        Done("ok", cur.replacements, cur.new_content, cur.backup, "failed", "none",
                             FALSE, cur.raw, fs[cur.path].data))
    /\ UNCHANGED <<conv_vars, root_kind, fs, dirs, now, args, md_files, summary,
                   exit_code, run_no, fs0, dirs0, prev_clean, backups_made>>

\* write_file_atomic: the content is written and the file closed (lines 261-262).
WriteOk ==
    /\ pc = "write"
    /\ fs' = Put(fs, WriteDestination(cur),
                 [data |-> cur.new_content, utf8 |-> cur.encoding_used = "utf-8"])
    /\ pc' = "replace"
    /\ UNCHANGED <<conv_vars, faults, root_kind, dirs, now, args, md_files, idx, results,
                   cur, summary, exit_code, run_no, fs0, dirs0, hist, prev_clean,
                   backups_made>>

\* write_file_atomic: the write or the close raises with any leading part of
\* the content written, from none of it to all (lines 261-264).
WriteFails ==
    /\ faults < MaxFaults
    /\ faults' = faults + 1
    /\ pc = "write"
    /\ \E part \in Truncations([data |-> cur.new_content,
                                 utf8 |-> cur.encoding_used = "utf-8"]) :
           fs' = Put(fs, WriteDestination(cur), part)
    /\ cur' \in { [cur EXCEPT !.exc = msg] : msg \in str("write failed") }
    /\ pc' = "cleanup"
    /\ UNCHANGED <<conv_vars, root_kind, dirs, now, args, md_files, idx, results,
                   summary, exit_code, run_no, fs0, dirs0, hist, prev_clean,
                   backups_made>>

\* write_file_atomic: the temporary file replaces the target in one step;
\* process_file returns modified=True (lines 263, 337).
ReplaceOk ==
    /\ pc = "replace"
    /\ fs' = Remove(Put(fs, cur.path, fs[cur.temp_path]), cur.temp_path)
    /\ ReturnResult(ConversionResult(cur.path, cur.replacements, TRUE, None),
                    Done("ok", cur.replacements, cur.new_content, cur.backup, "ok", "none",
                         cur.temp_path \in DOMAIN fs', cur.raw, fs'[cur.path].data))
    /\ UNCHANGED <<conv_vars, faults, root_kind, dirs, now, args, md_files, summary,
                   exit_code, run_no, fs0, dirs0, prev_clean, backups_made>>

\* write_file_atomic: replace raises (lines 263-264).
ReplaceFails ==
    /\ faults < MaxFaults
    /\ faults' = faults + 1
    /\ pc = "replace"
    /\ cur' \in { [cur EXCEPT !.exc = msg] : msg \in str("replace failed") }
    /\ pc' = "cleanup"
    /\ UNCHANGED <<conv_vars, root_kind, fs, dirs, now, args, md_files, idx,
                   results, summary, exit_code, run_no, fs0, dirs0, hist,
                   prev_clean, backups_made>>

\* write_file_atomic: the temporary file is unlinked and the exception raised
\* again; process_file's except clause returns it (lines 264-269, 339-340).
UnlinkOk ==
    /\ pc = "cleanup"
    /\ fs' = Remove(fs, cur.temp_path)
    /\ ReturnResult(ConversionResult(cur.path, 0, FALSE, cur.exc),
                    Done("ok", cur.replacements, cur.new_content, cur.backup, "failed", "ok",
                         cur.temp_path \in DOMAIN fs', cur.raw, fs'[cur.path].data))
    /\ UNCHANGED <<conv_vars, faults, root_kind, dirs, now, args, md_files, summary,
                   exit_code, run_no, fs0, dirs0, prev_clean, backups_made>>

\* write_file_atomic: os.unlink raises OSError, which is passed over; the first
\* exception is raised again (lines 265-269, 339-340).
UnlinkFails ==
    /\ pc = "cleanup"
    /\ UNCHANGED faults
    /\ ReturnResult(ConversionResult(cur.path, 0, FALSE, cur.exc),
                    Done("ok", cur.replacements, cur.new_content, cur.backup, "failed", "failed",
                         cur.temp_path \in DOMAIN fs, cur.raw, fs[cur.path].data))
    /\ UNCHANGED <<conv_vars, root_kind, fs, dirs, now, args, md_files, summary,
                   exit_code, run_no, fs0, dirs0, prev_clean, backups_made>>

\* run_conversion: the loop is over and the summary is built (lines 385-418).
Summarize ==
    /\ pc = "file"
    /\ idx > Len(md_files)
    /\ summary' = ConversionSummary(md_files, results)
    /\ pc' = "summary"
    /\ UNCHANGED <<conv_vars, faults, root_kind, fs, dirs, now, args, md_files, idx,
                   results, cur, exit_code, run_no, fs0, dirs0, hist, prev_clean,
                   backups_made>>

\* main returns the exit status (line 489).
Exit ==
    /\ pc = "summary"
    /\ exit_code' = ExitStatus(summary)
    /\ pc' = "exit"
    /\ UNCHANGED <<conv_vars, faults, root_kind, fs, dirs, now, args, md_files, idx,
                   results, cur, summary, run_no, fs0, dirs0, hist, prev_clean,
                   backups_made>>

\* The command is run again over the same root. The clock is read in
\* create_backup only.
NextRun ==
    /\ pc = "exit"
    /\ run_no < MaxRuns
    /\ run_no' = run_no + 1
    /\ prev_clean' = /\ root_kind = "dir"
                     /\ args.write
                     /\ ~args.no_backup
                     /\ \A k \in 1..Len(hist) :
                            /\ hist[k].read = "ok"
                            /\ hist[k].backup # "failed"
                            /\ hist[k].write # "failed"
    /\ pc' = "main"
    /\ md_files' = <<>>
    /\ idx' = 0
    /\ results' = <<>>
    /\ hist' = <<>>
    /\ summary' = NoSummary
    /\ exit_code' = None
    /\ fs0' = fs
    /\ dirs0' = dirs
    /\ UNCHANGED <<conv_vars, faults, root_kind, fs, dirs, now, args, cur,
                   backups_made>>

Next ==
    \/ MainMissingRoot
    \/ MainRootNotDir
    \/ MainRun
    \/ Discover
    \/ ReadFails
    \/ ReadUnchanged
    \/ ReadDryRun
    \/ ReadToWrite
    \/ BackupOk
    \/ BackupMkdirFails
    \/ BackupCopyFails
    \/ MkstempOk
    \/ MkstempFails
    \/ WriteOk
    \/ WriteFails
    \/ ReplaceOk
    \/ ReplaceFails
    \/ UnlinkOk
    \/ UnlinkFails
    \/ Summarize
    \/ Exit
    \/ NextRun

Spec == Init /\ [][Next]_vars

\* ------------------------------------------------------ claims on the run

\* The files processed so far in this run.
Processed == 1..Len(hist)

\* process_file is between the dry-run test and its return: in create_backup
\* or in write_file_atomic.
InWritePhase == pc \in {"backup", "mkstemp", "write", "replace", "cleanup"}

InWriteFileAtomic == pc \in {"mkstemp", "write", "replace", "cleanup"}

\* What the transform makes of a file's bytes.
Converted(data) == convert_h1_to_h2(UniversalNewlines(data))[1]

\* An I/O call failed while the file was processed.
Failed(h) == h.read = "failed" \/ h.backup = "failed" \/ h.write = "failed"

\* C5: without --write a run changes, creates and replaces no file and no
\* directory: process_file makes no backup and writes nothing, whatever the
\* conversion count, and no backup folder appears.
C5_DryRunWritesNothing ==
    (pc # "main" /\ ~args.write) =>
        /\ fs = fs0
        /\ dirs = dirs0
        /\ ~InWritePhase
        /\ \A k \in Processed :
               /\ hist[k].backup = "none"
               /\ hist[k].write = "none"
               /\ ~results[k].modified

\* A dry run has ended that found headings to convert.
C5_Witness ==
    /\ pc = "exit"
    /\ root_kind = "dir"
    /\ ~args.write
    /\ summary.total_replacements > 0
    /\ <<DirBackups>> \notin dirs

\* C6 as stated: whenever write_file_atomic fails, the temporary file is gone,
\* the failure reaches the caller and the target holds its prior content; and
\* the target always holds the old content or the new, never a mix.
C6_TempAlwaysRemoved ==
    /\ \A k \in Processed :
           hist[k].write = "failed" =>
               /\ ~hist[k].temp_left
               /\ results[k].error # None
               /\ hist[k].after = hist[k].before
    /\ InWriteFileAtomic =>
           fs[cur.path].data \in {cur.raw, cur.new_content}

\* C6, amended: when write_file_atomic fails, the failure reaches the caller
\* and the target holds its prior content; the temporary file is gone unless
\* os.unlink itself failed, in which case it is left behind; a write that
\* succeeds leaves the new content and no temporary file; until the replace
\* the target holds the old content, and after it the old or the new, never a
\* mix.
C6_AtomicWrite ==
    /\ \A k \in Processed :
           /\ hist[k].write = "failed" =>
                  /\ results[k].error # None
                  /\ ~results[k].modified
                  /\ hist[k].after = hist[k].before
                  /\ hist[k].temp_left <=> hist[k].unlink = "failed"
           /\ hist[k].write = "ok" =>
                  /\ hist[k].after = hist[k].new
                  /\ ~hist[k].temp_left
                  /\ results[k].modified
           /\ hist[k].after \in {hist[k].before, hist[k].new}
    /\ InWriteFileAtomic =>
           /\ fs[cur.path].data = cur.raw
           /\ cur.new_content = Converted(cur.raw)

\* A write failed with part of the content in the temporary file, the file was
\* unlinked, and the target is as it was.
C6_Witness ==
    \E k \in Processed :
        /\ hist[k].write = "failed"
        /\ hist[k].unlink = "ok"
        /\ results[k].error = "write failed"
        /\ fs[results[k].file_path].data = hist[k].before
        /\ hist[k].before # hist[k].new

\* The backup copies of `data` that exist under the backup folder.
BackupsOf(data) ==
    { b \in backups_made :
          /\ b.data = data
          /\ b.path \in DOMAIN fs
          /\ fs[b.path].data = data
          /\ b.path[1] = DirBackups }

\* C7: in write mode with backups enabled, a file is written only after its
\* backup has been made; when the backup fails the file is not written, its
\* content stays as it was, and the failure is the file's error: the error of
\* its result is the message of the exception.
C7_BackupBeforeWrite ==
    (pc # "main" /\ args.write /\ ~args.no_backup) =>
        /\ InWriteFileAtomic =>
               cur.backup = "ok" /\ BackupsOf(cur.raw) # {}
        /\ \A k \in Processed :
               /\ hist[k].write # "none" => hist[k].backup = "ok"
               /\ hist[k].backup = "failed" =>
                      /\ hist[k].write = "none"
                      /\ hist[k].after = hist[k].before
                      /\ ~results[k].modified
                      /\ results[k].error \in
                             str("mkdir failed") \cup str("copy failed")

\* In one run a backup failed for one file, and another file was backed up and
\* then written.
C7_Witness ==
    /\ pc = "exit"
    /\ args.write
    /\ ~args.no_backup
    /\ \E k \in Processed : hist[k].backup = "failed" /\ hist[k].found > 0
    /\ \E k \in Processed : hist[k].backup = "ok" /\ hist[k].write = "ok"

\* C8: for a valid root the exit status is 1 exactly when an error was
\* recorded for some file (processing it failed and its result carries the
\* error), and 0 otherwise, whatever the mode and however many conversions
\* were found; for a root that is missing or no directory it is 1, and no file
\* is scanned or touched.
C8_ExitStatus ==
    pc = "exit" =>
        IF root_kind = "dir"
        THEN /\ exit_code \in {0, 1}
             /\ exit_code = 1 <=> \E k \in Processed : results[k].error # None
             /\ \A k \in Processed : results[k].error # None <=> Failed(hist[k])
             /\ Len(hist) = Len(md_files)
        ELSE /\ exit_code = 1
             /\ md_files = <<>>
             /\ results = <<>>
             /\ fs = fs0
             /\ dirs = dirs0

RECURSIVE SumFound(_)
SumFound(hs) == IF hs = <<>> THEN 0 ELSE Head(hs).found + SumFound(Tail(hs))

RECURSIVE SumFoundNoError(_)
SumFoundNoError(hs) ==
    IF hs = <<>> THEN 0
    ELSE (IF Failed(Head(hs)) THEN 0 ELSE Head(hs).found)
             + SumFoundNoError(Tail(hs))

\* C9 as stated: whether or not a file's processing failed, files_changed is
\* the number of discovered files in which the transform found a conversion,
\* total_replacements the sum of the transform's counts over the discovered
\* files, files_scanned the number of discovered files.
C9_CountsDespiteErrors ==
    (pc \in {"summary", "exit"} /\ root_kind = "dir") =>
        /\ summary.files_changed =
               Cardinality({ k \in Processed : hist[k].found > 0 })
        /\ summary.total_replacements = SumFound(hist)
        /\ summary.files_scanned = Len(md_files)

\* C9, amended: files_changed is the number of discovered files processed
\* without error in which the transform found a conversion, total_replacements
\* the sum of the transform's counts over the files processed without error (a
\* file whose backup or write failed is reported with zero replacements), and
\* files_scanned the number of discovered files, in dry-run and write mode.
C9_SummaryCounts ==
    (pc \in {"summary", "exit"} /\ root_kind = "dir") =>
        /\ summary.files_changed =
               Cardinality({ k \in Processed :
                                 hist[k].found > 0 /\ ~Failed(hist[k]) })
        /\ summary.total_replacements = SumFoundNoError(hist)
        /\ summary.files_scanned = Len(md_files)
        /\ Len(hist) = Len(md_files)
        /\ \A k \in Processed :
               results[k].replacements =
                   IF Failed(hist[k]) THEN 0 ELSE hist[k].found

\* A run has ended in which one file with headings failed and another with
\* headings was processed without error.
C9_Witness ==
    /\ pc = "exit"
    /\ root_kind = "dir"
    /\ \E k \in Processed : hist[k].found > 0 /\ Failed(hist[k])
    /\ \E k \in Processed : hist[k].found > 0 /\ ~Failed(hist[k])
    /\ summary.files_changed = 1

\* C10: after a write-mode run with backups that recorded no error, the next
\* run over the same root discovers no file of the backup folder, reports zero
\* conversions and modifies no file; and every backup copy keeps the content
\* it was made with, whatever runs follow.
C10_BackupsLeftAlone ==
    /\ (prev_clean /\ pc \notin {"main", "discover"} /\ root_kind = "dir") =>
           /\ \A k \in 1..Len(md_files) : md_files[k][1] # DirBackups
           /\ fs = fs0
           /\ pc = "exit" => summary.total_replacements = 0
    /\ \A b \in backups_made :
           b.path \in DOMAIN fs /\ fs[b.path].data = b.data

====
